---- MODULE Spec2Model ----
(***************************************************************************)
(* A model of the market-analysis scripts:                                 *)
(*   get_param.py     the cached, dotted-path config accessor              *)
(*   stock_search.py  the drawdown screener and its main                   *)
(*   make_chart.py    the chart renderer and its main                      *)
(*                                                                         *)
(* Strings the code takes apart (ticker codes, company names, dotted       *)
(* paths, the text of search_result.txt) are sequences of one-character    *)
(* strings.  Prices are positive integers; a ratio current/peak is kept as *)
(* the pair (cur, peak) and compared by cross multiplication.              *)
(***************************************************************************)
EXTENDS Integers, Sequences, FiniteSets, TLC

VARIABLES
    \* ---- search_drawdown (stock_search.py) ----
    tickers,      \* the tickers argument
    server,       \* what the price endpoint answers for each code
    threshold,    \* the threshold argument: None or a rational num/den
    top_n,        \* the top_n argument: None or an integer
    sdPc,         \* "idle", "loop", "sort", "returned", "raised"
    idx,          \* number of loop iterations completed
    results,      \* the results list built by the loop
    fetched,      \* codes a price request was issued for, in order
    outcome,      \* per completed iteration: what became of the ticker
    returned,     \* the value search_drawdown returned
    \* ---- get_param.py ----
    files,        \* per path: the config file as it is on disk now
    cache,        \* the lru_cache(maxsize=1) of _load_config: at most one entry
    lastCall,     \* the last call made: get_param or reload_config, its arguments
    gpResult,     \* what the last get_param returned
    snapshot,     \* per path: the file as it was at the first get_param or the last reload_config of that path
    getReads,     \* per path: how often a get_param call read the file from disk
    pathsUsed,    \* the path arguments passed so far
    calls,        \* number of get_param and reload_config calls so far
    \* ---- the services and files around both scripts ----
    listing,      \* the "info" list GET /v1/listed/info answers with
    resultFile,   \* search_result.txt
    authReqs,     \* the token exchanges requested so far
    \* ---- main of stock_search.py ----
    ssPc,         \* "idle", "start", "auth", "listing", "lookback", "threshold", "top_n", "call", "searching", "exited"
    ssToken,      \* refreshtoken after strip()
    ssHeaders,    \* whether the local `headers` is bound
    ssAuth,       \* status of the token exchange, 0 before it
    ssListing,    \* status of the listing fetch, 0 before it
    ssLookback,   \* lookback_days
    ssExit,       \* exit code, -1 while running
    ssDiag,       \* whether a diagnostic (message or traceback) was printed
    \* ---- main of make_chart.py ----
    mcPc,         \* "idle", "start", "auth", "read", "loop", "exited"
    mcCfg,        \* cfg
    mcAuth,       \* status of the token exchange, 0 before it
    mcReadFile,   \* search_result.txt as it was when main read it
    company_names,\* the dict code -> name in insertion order
    chartIdx,     \* number of loop iterations completed
    chartReqs,    \* the price requests make_chart issued, in order
    charts,       \* the image files written
    chartResults, \* results: per code the frame make_chart returned, when not empty
    mcExit,       \* exit code, -1 while running
    mcDiag        \* whether a diagnostic was printed

sdVars == <<tickers, server, threshold, top_n, sdPc, idx, results, fetched,
            outcome, returned>>
cfgVars == <<files, cache, lastCall, gpResult, snapshot, getReads, pathsUsed, calls>>

ioVars == <<listing, resultFile, authReqs>>
ssVars == <<ssPc, ssToken, ssHeaders, ssAuth, ssListing, ssLookback, ssExit, ssDiag>>
mcVars == <<mcPc, mcCfg, mcAuth, mcReadFile, company_names, chartIdx, chartReqs,
            charts, chartResults, mcExit, mcDiag>>

vars == <<sdVars, cfgVars, ioVars, ssVars, mcVars>>

----------------------------------------------------------------------------
\* Bounds of the model.

\* Longest ticker list handed to search_drawdown.
MaxTickers == 2

\* Longest dotted path handed to get_param, in characters.
MaxNameLen == 4

\* Most get_param and reload_config calls in one process.
MaxCalls == 3

\* The minimum number of valid points (stock_search.py line 88).
MinPoints == 30

----------------------------------------------------------------------------
\* Values.

None == [none |-> TRUE, num |-> 0, den |-> 1]
Rat(n, d) == [none |-> FALSE, num |-> n, den |-> d]
Int_(n) == [none |-> FALSE, num |-> n, den |-> 1]

Num(v) == [num |-> TRUE, v |-> v]
NaN == [num |-> FALSE, v |-> 0]

Code1 == <<"1">>
Code2 == <<"2">>
Code3 == <<"3">>
AllCodes == <<Code1, Code2, Code3>>

RECURSIVE Concat(_)
Concat(ss) == IF ss = <<>> THEN <<>> ELSE Head(ss) \o Concat(Tail(ss))

Max(S) == CHOOSE x \in S : \A y \in S : y <= x

\* A run of n rows on consecutive days from `first`, all with the same entry
\* in the price column.
Seg(n, price, first) == [n |-> n, price |-> price, first |-> first]
Expand(seg) == [j \in 1..seg.n |-> [date |-> seg.first + j - 1, price |-> seg.price]]
RowsOf(segs) == Concat([k \in 1..Len(segs) |-> Expand(segs[k])])

\* A response of GET /v1/prices/daily_quotes.
\* kind: how the request ends; rowsKey: the payload key the rows are under;
\* dateCol, priceCol: the names the date column and the (adjusted) price
\* column go by; others: the other columns of the rows.
Ohlcv == {"Open", "High", "Low", "Close", "Volume"}
ResponseWith(kind, rowsKey, dateCol, priceCol, others, segs) ==
    [kind |-> kind, rowsKey |-> rowsKey, dateCol |-> dateCol,
     priceCol |-> priceCol, others |-> others, rows |-> RowsOf(segs)]
Response(kind, rowsKey, dateCol, priceCol, segs) ==
    ResponseWith(kind, rowsKey, dateCol, priceCol, Ohlcv, segs)
Failure(kind) == Response(kind, "daily_quotes", "Date", "AdjustmentClose", <<>>)

----------------------------------------------------------------------------
\* search_drawdown, one loop iteration.

\* session.get / raise_for_status / resp.json raise.
FetchRaises(resp) == resp.kind \in {"timeout", "http_error", "bad_json"}

\* payload.get("daily_quotes") or payload.get("data") or payload.get("quotes") or []
ScreenerQuotes(resp) ==
    IF resp.rowsKey \in {"daily_quotes", "data", "quotes"} THEN resp.rows ELSE <<>>

\* date_col = "Date" if present, else "date" if present, else None
ScreenerDateCol(resp) ==
    IF resp.dateCol = "Date" THEN "Date"
    ELSE IF resp.dateCol = "date" THEN "date" ELSE "none"

\* Two runs of rows, each in date order, merged into one; on equal dates the
\* rows of the first run stay ahead.  The middle row of the first run goes
\* between the rows of the second run dated before it and the others.
RECURSIVE MergeByDate(_, _)
MergeByDate(a, b) ==
    IF a = <<>> THEN b
    ELSE IF b = <<>> THEN a
    ELSE LET mid == (Len(a) + 1) \div 2
             cut == Cardinality({j \in 1..Len(b) : b[j].date < a[mid].date})
         IN  MergeByDate(SubSeq(a, 1, mid - 1), SubSeq(b, 1, cut))
             \o <<a[mid]>>
             \o MergeByDate(SubSeq(a, mid + 1, Len(a)), SubSeq(b, cut + 1, Len(b)))

\* The rows in ascending date order, rows of equal date in the order received.
RECURSIVE SortByDate(_)
SortByDate(rows) ==
    IF Len(rows) <= 1 THEN rows
    ELSE LET half == Len(rows) \div 2
         IN  MergeByDate(SortByDate(SubSeq(rows, 1, half)),
                         SortByDate(SubSeq(rows, half + 1, Len(rows))))

\* df.sort_values(date_col) when a date column was found
SortValues(resp, rows) ==
    IF ScreenerDateCol(resp) # "none" THEN SortByDate(rows) ELSE rows

\* df["AdjustmentClose"] raises KeyError when the column is absent
HasAdjustmentClose(resp) == resp.priceCol = "AdjustmentClose"

\* pd.to_numeric(..., errors="coerce").dropna()
IsNumeric(row) == row.price.num
ToNumericDropna(rows) ==
    LET kept == SelectSeq(rows, IsNumeric)
    IN  [k \in 1..Len(kept) |-> kept[k].price.v]

\* (mutation of TooFew: the bound off by one)
TooFew_OffByOne(s) == Len(s) < MinPoints - 1

\* s.size < 30
TooFew(s) == Len(s) < MinPoints

\* (mutation of CurrentPrice: the first entry instead of the last)
CurrentPrice_First(s) == s[1]

PeakPrice(s) == Max({s[k] : k \in 1..Len(s)})
CurrentPrice(s) == s[Len(s)]

\* current_dd <= threshold
WithinThreshold(cur, peak, th) == cur * th.den <= th.num * peak

\* The body of the try block for one ticker: what becomes of it, and the
\* ratio when one was computed.
Evaluate(resp, th) ==
    LET quotes == ScreenerQuotes(resp)
        s == ToNumericDropna(SortValues(resp, quotes))
        none == [outcome |-> "error", cur |-> 0, peak |-> 1]
    IN  IF FetchRaises(resp) THEN none
        ELSE IF quotes = <<>> THEN [none EXCEPT !.outcome = "empty"]
        ELSE IF ~HasAdjustmentClose(resp) THEN none
        ELSE IF TooFew(s) THEN [none EXCEPT !.outcome = "short"]
        ELSE IF th.none THEN none
        ELSE [outcome |-> IF WithinThreshold(CurrentPrice(s), PeakPrice(s), th)
                          THEN "kept" ELSE "dropped",
              cur |-> CurrentPrice(s), peak |-> PeakPrice(s)]

\* (mutation of OnException: the exception leaves the loop)
OnException_Propagates ==
    /\ sdPc' = "raised"
    /\ UNCHANGED results

\* except Exception: print, traceback, continue
OnException ==
    /\ sdPc' = "loop"
    /\ UNCHANGED results

ProcessTicker ==
    /\ sdPc = "loop"
    /\ idx < Len(tickers)
    /\ LET code == tickers[idx + 1]
           ev == Evaluate(server[code], threshold)
       IN  /\ fetched' = Append(fetched, code)
           /\ outcome' = Append(outcome, ev.outcome)
           /\ idx' = idx + 1
           /\ IF ev.outcome = "error" THEN OnException
              ELSE /\ sdPc' = "loop"
                   /\ results' = IF ev.outcome = "kept"
                                 THEN Append(results, [Code |-> code, cur |-> ev.cur,
                                                       peak |-> ev.peak])
                                 ELSE results
    /\ UNCHANGED <<tickers, server, threshold, top_n, returned>>

\* results.sort(key=max_drawdown): stable, ascending by ratio.
RatioLess(a, b) == a.cur * b.peak < b.cur * a.peak

RECURSIVE InsertByRatio(_, _)
InsertByRatio(sorted, r) ==
    IF sorted = <<>> THEN <<r>>
    ELSE IF ~RatioLess(r, sorted[Len(sorted)]) THEN Append(sorted, r)
    ELSE Append(InsertByRatio(SubSeq(sorted, 1, Len(sorted) - 1), r),
                sorted[Len(sorted)])

RECURSIVE SortByRatio(_)
SortByRatio(rs) ==
    IF rs = <<>> THEN <<>>
    ELSE InsertByRatio(SortByRatio(SubSeq(rs, 1, Len(rs) - 1)), rs[Len(rs)])

\* (mutation of Slice: one entry too many, and no negative index)
Slice_OffByOne(rs, n) ==
    IF n.none THEN rs
    ELSE SubSeq(rs, 1, IF n.num + 1 < Len(rs) THEN n.num + 1 ELSE Len(rs))

\* results[:top_n]
Slice(rs, n) ==
    IF n.none THEN rs
    ELSE IF n.num >= 0 THEN SubSeq(rs, 1, IF n.num < Len(rs) THEN n.num ELSE Len(rs))
    ELSE SubSeq(rs, 1, IF Len(rs) + n.num > 0 THEN Len(rs) + n.num ELSE 0)

\* The loop is over: sort.
SortResults ==
    /\ sdPc = "loop"
    /\ idx = Len(tickers)
    /\ results' = SortByRatio(results)
    /\ sdPc' = "sort"
    /\ UNCHANGED <<tickers, server, threshold, top_n, idx, fetched, outcome, returned>>

\* return [r["Code"] for r in results[:top_n]]
ReturnCodes ==
    /\ sdPc = "sort"
    /\ returned' = [k \in 1..Len(Slice(results, top_n)) |-> Slice(results, top_n)[k].Code]
    /\ sdPc' = "returned"
    /\ UNCHANGED <<tickers, server, threshold, top_n, idx, results, fetched, outcome>>

----------------------------------------------------------------------------
\* get_param.py

\* A YAML value: a mapping (t = "dict", items: key -> value), a string or a
\* number (v: its characters), null, or a list (v: empty or not).  A value a
\* call can also end in: "raised".
NoItems == <<>>
NoNum == <<0, 1>>
NoneV == [t |-> "none", v |-> <<>>, items |-> NoItems, num |-> NoNum]
Str(x) == [t |-> "str", v |-> x, items |-> NoItems, num |-> NoNum]
ListV(x) == [t |-> "list", v |-> x, items |-> NoItems, num |-> NoNum]
NumV(n, d) == [t |-> "num", v |-> <<>>, items |-> NoItems, num |-> <<n, d>>]
Dict(f) == [t |-> "dict", v |-> <<>>, items |-> f, num |-> NoNum]
Raised == [t |-> "raised", v |-> <<>>, items |-> NoItems, num |-> NoNum]
EmptyDict == Dict(NoItems)

\* A file on disk: missing, or the value yaml.safe_load gives for its text
\* (None for an empty file).
MissingFile == [exists |-> FALSE, data |-> NoneV]
File(data) == [exists |-> TRUE, data |-> data]

\* Python truth of a loaded value, as `data or {}` tests it
Falsy(val) ==
    \/ val.t = "none"
    \/ val.t = "str" /\ val.v = <<>>
    \/ val.t = "list" /\ val.v = <<>>
    \/ val.t = "num" /\ val.num[1] = 0
    \/ val.t = "dict" /\ DOMAIN val.items = {}

\* The body of _load_config: {} for a missing file, data or {} otherwise
LoadFile(doc) ==
    IF ~doc.exists THEN EmptyDict
    ELSE IF Falsy(doc.data) THEN EmptyDict
    ELSE doc.data

\* (mutation of LoadConfig: no cache, every call reads the file)
LoadConfig_NoCache(c, fs, path) ==
    [cfg |-> LoadFile(fs[path]),
     cache |-> <<[key |-> path, value |-> LoadFile(fs[path])]>>,
     read |-> TRUE]

\* _load_config under @lru_cache(maxsize=1): the cached value when the one
\* entry is for this path; otherwise the file is read and its parse replaces
\* the entry.
LoadConfig(c, fs, path) ==
    IF c # <<>> /\ c[1].key = path
    THEN [cfg |-> c[1].value, cache |-> c, read |-> FALSE]
    ELSE [cfg |-> LoadFile(fs[path]),
          cache |-> <<[key |-> path, value |-> LoadFile(fs[path])]>>,
          read |-> TRUE]

\* str.split / re.split on single characters: the pieces between the
\* separators, empty ones included
SplitOn(text, seps) ==
    LET n == Len(text)
        marks == {0} \cup {i \in 1..n : text[i] \in seps}
        Mark(k) == CHOOSE i \in marks : Cardinality({j \in marks : j < i}) = k - 1
        After(i) == CHOOSE j \in marks \cup {n + 1} :
                        j > i /\ \A m \in marks : m > i => j <= m
    IN  [k \in 1..Cardinality(marks) |-> SubSeq(text, Mark(k) + 1, After(Mark(k)) - 1)]

\* name.split(".")
Split(name) == SplitOn(name, {"."})

\* (mutation of Lookup: no isinstance test, indexing a non-dict raises)
RECURSIVE Lookup_NoDictCheck(_, _, _)
Lookup_NoDictCheck(current, parts, default) ==
    IF parts = <<>> THEN current
    ELSE IF current.t # "dict" THEN Raised
    ELSE IF Head(parts) \in DOMAIN current.items
    THEN Lookup_NoDictCheck(current.items[Head(parts)], Tail(parts), default)
    ELSE default

\* The for loop of get_param over the segments
RECURSIVE Lookup(_, _, _)
Lookup(current, parts, default) ==
    IF parts = <<>> THEN current
    ELSE IF current.t = "dict" /\ Head(parts) \in DOMAIN current.items
    THEN Lookup(current.items[Head(parts)], Tail(parts), default)
    ELSE default

Touch(p) == pathsUsed' = pathsUsed \cup {p}

\* get_param(name, default, path)
GetParam(name, default, path) ==
    /\ LET ld == LoadConfig(cache, files, path)
       IN  /\ cache' = ld.cache
           /\ gpResult' = Lookup(ld.cfg, Split(name), default)
           /\ getReads' = [getReads EXCEPT ![path] = @ + (IF ld.read THEN 1 ELSE 0)]
    /\ snapshot' = IF snapshot[path].set THEN snapshot
                   ELSE [snapshot EXCEPT ![path] = [set |-> TRUE, doc |-> files[path]]]
    /\ lastCall' = [op |-> "get", name |-> name, default |-> default, path |-> path]
    /\ Touch(path)
    /\ calls' = calls + 1
    /\ UNCHANGED files

\* reload_config(path): cache_clear(), then _load_config(path)
ReloadConfig(path) ==
    /\ cache' = LoadConfig(<<>>, files, path).cache
    /\ snapshot' = [snapshot EXCEPT ![path] = [set |-> TRUE, doc |-> files[path]]]
    /\ lastCall' = [op |-> "reload", name |-> <<>>, default |-> NoneV, path |-> path]
    /\ Touch(path)
    /\ calls' = calls + 1
    /\ UNCHANGED <<files, gpResult, getReads>>

\* The file at `path` is rewritten, created or removed by someone.
FileChange(path, doc) ==
    /\ files[path] # doc
    /\ files' = [files EXCEPT ![path] = doc]
    /\ UNCHANGED <<cache, lastCall, gpResult, snapshot, getReads, pathsUsed, calls>>

\* The paths: DEFAULT_CONFIG_PATH and another file.
DefaultPath == "config.yaml"
Paths == {DefaultPath, "other.yaml"}

Keys == {<<"a">>, <<"b">>}
Leaves == {Str(<<"x">>), NoneV}
PartialMaps(vals) == UNION {[D -> vals] : D \in SUBSET Keys}
Dicts1 == {Dict(f) : f \in PartialMaps(Leaves)}
Dicts2 == {Dict(f) : f \in PartialMaps(Leaves \cup Dicts1)}

\* Every file get_param may find: none, an empty one, a scalar or a list at
\* the top level, a mapping nested up to two deep.
LookupFiles ==
    {MissingFile, File(NoneV), File(Str(<<>>)), File(Str(<<"x">>)), File(ListV(<<>>)),
     File(ListV(<<"i">>))} \cup {File(d) : d \in Dicts2}

NameChars == {"a", "b", "."}
RECURSIVE NamesOfLen(_)
NamesOfLen(n) ==
    IF n = 0 THEN {<<>>}
    ELSE {<<c>> \o w : c \in NameChars, w \in NamesOfLen(n - 1)}
Names == UNION {NamesOfLen(n) : n \in 0..MaxNameLen}
Defaults == {NoneV, Str(<<"d">>)}

CfgStart ==
    /\ cache = <<>>
    /\ lastCall = [op |-> "none", name |-> <<>>, default |-> NoneV, path |-> DefaultPath]
    /\ gpResult = NoneV
    /\ snapshot = [p \in Paths |-> [set |-> FALSE, doc |-> MissingFile]]
    /\ getReads = [p \in Paths |-> 0]
    /\ pathsUsed = {}
    /\ calls = 0

\* Nothing of get_param.py is in use.
CfgIdle ==
    /\ files = [p \in Paths |-> MissingFile]
    /\ CfgStart

\* search_drawdown has not been called.
SdIdle ==
    /\ tickers = <<>>
    /\ server = <<>>
    /\ threshold = None
    /\ top_n = None
    /\ sdPc = "idle"
    /\ idx = 0
    /\ results = <<>>
    /\ fetched = <<>>
    /\ outcome = <<>>
    /\ returned = <<>>

\* Neither script is running.
MainIdle ==
    /\ listing = <<>>
    /\ resultFile = [exists |-> FALSE, text |-> <<>>]
    /\ authReqs = <<>>
    /\ ssPc = "idle"
    /\ ssToken = <<>>
    /\ ssHeaders = FALSE
    /\ ssAuth = 0
    /\ ssListing = 0
    /\ ssLookback = None
    /\ ssExit = -1
    /\ ssDiag = FALSE
    /\ mcPc = "idle"
    /\ mcCfg = EmptyDict
    /\ mcAuth = 0
    /\ mcReadFile = [exists |-> FALSE, text |-> <<>>]
    /\ company_names = <<>>
    /\ chartIdx = 0
    /\ chartReqs = <<>>
    /\ charts = {}
    /\ chartResults = <<>>
    /\ mcExit = -1
    /\ mcDiag = FALSE

\* One get_param call on the default path of a fresh process, over every file
\* and every dotted path.
InitLookup ==
    /\ \E d \in LookupFiles : files = [p \in Paths |-> IF p = DefaultPath THEN d ELSE MissingFile]
    /\ CfgStart
    /\ SdIdle
    /\ MainIdle

NextLookup ==
    /\ calls = 0
    /\ \E name \in Names, default \in Defaults : GetParam(name, default, DefaultPath)
    /\ UNCHANGED <<sdVars, ioVars, ssVars, mcVars>>

SpecLookup == InitLookup /\ [][NextLookup]_vars

\* get_param and reload_config called on either path while the files change.
CacheFiles == {MissingFile, File(Dict([k \in {<<"a">>} |-> Str(<<"x">>)])),
               File(Dict([k \in {<<"a">>} |-> Str(<<"y">>)]))}
CacheNames == {<<"a">>}

InitConfig ==
    /\ files \in [Paths -> CacheFiles]
    /\ CfgStart
    /\ SdIdle
    /\ MainIdle

NextConfig ==
    /\ calls < MaxCalls
    /\ \/ \E path \in Paths, name \in CacheNames : GetParam(name, Str(<<"d">>), path)
       \/ \E path \in Paths : ReloadConfig(path)
       \/ \E path \in Paths, doc \in CacheFiles : FileChange(path, doc)
    /\ UNCHANGED <<sdVars, ioVars, ssVars, mcVars>>

SpecConfig == InitConfig /\ [][NextConfig]_vars

\* Properties of get_param.py.

\* Every node of a loaded mapping with the key path leading to it.
RECURSIVE Nodes(_, _)
Nodes(val, path) ==
    {[path |-> path, val |-> val]} \cup
    (IF val.t = "dict"
     THEN UNION {Nodes(val.items[k], Append(path, k)) : k \in DOMAIN val.items}
     ELSE {})
\* What the file at a path holds as a config: its mapping, or nothing.
ConfigOf(doc) == IF doc.exists /\ doc.data.t = "dict" THEN doc.data ELSE EmptyDict
Expected(doc, name, default) ==
    LET hits == {n \in Nodes(ConfigOf(doc), <<>>) : n.path = Split(name)}
    IN  IF hits = {} THEN default ELSE (CHOOSE n \in hits : TRUE).val

\* C5: get_param returns the value at the end of the dotted path when every
\* segment leads through a mapping of the loaded config to a key of it, and
\* the default otherwise (a missing file, an empty file and a top level that
\* is no mapping hold no key at all); it never raises.
C5_LookupOrDefault ==
    lastCall.op = "get" =>
        /\ gpResult # Raised
        /\ gpResult = Expected(files[lastCall.path], lastCall.name, lastCall.default)

\* C5 witness: the path a.b stops at a string held under a, and the default
\* came back.
C5_Witness ==
    /\ lastCall.op = "get"
    /\ lastCall.name = <<"a", ".", "b">>
    /\ files[DefaultPath].exists
    /\ files[DefaultPath].data.t = "dict"
    /\ <<"a">> \in DOMAIN files[DefaultPath].data.items
    /\ files[DefaultPath].data.items[<<"a">>] = Str(<<"x">>)
    /\ lastCall.default = Str(<<"d">>)
    /\ gpResult = Str(<<"d">>)

\* C6 as stated: whatever paths the calls pass, a get_param call reads a
\* file at most once (the first call), and every get_param returns what the
\* file held at that first call or at the last reload_config of its path.
ServedFromSnapshot ==
    /\ \A p \in Paths : getReads[p] <= 1
    /\ calls = 0 => cache = <<>>
    /\ lastCall.op = "get" =>
         gpResult = Lookup(LoadFile(snapshot[lastCall.path].doc), Split(lastCall.name),
                           lastCall.default)
    /\ lastCall.op = "reload" =>
         cache = <<[key |-> lastCall.path,
                    value |-> LoadFile(snapshot[lastCall.path].doc)]>>
C6_ReadOnceUntilReload == ServedFromSnapshot

\* C6 amended: the same, as long as every call passed the same path.
C6_ReadOnceSamePath == Cardinality(pathsUsed) <= 1 => ServedFromSnapshot

\* C6 witness: the file changed after the first get_param and the second
\* get_param on the same path still returned the old value.
C6_Witness ==
    /\ pathsUsed = {DefaultPath}
    /\ calls = 2
    /\ lastCall.op = "get"
    /\ getReads[DefaultPath] = 1
    /\ gpResult = Str(<<"x">>)
    /\ files[DefaultPath] = File(Dict([k \in {<<"a">>} |-> Str(<<"y">>)]))

----------------------------------------------------------------------------
\* search_drawdown called on a ticker list, against a price endpoint.

ScreenResponses ==
    { Failure("timeout"), Failure("http_error"), Failure("bad_json"),
      Response("ok", "other", "Date", "AdjustmentClose", <<Seg(MinPoints, Num(100), 1)>>),
      Response("ok", "daily_quotes", "Date", "Close", <<Seg(MinPoints, Num(100), 1)>>),
      Response("ok", "daily_quotes", "Date", "AdjustmentClose",
               <<Seg(MinPoints - 1, Num(100), 1), Seg(1, Num(60), 101)>>),
      Response("ok", "data", "date", "AdjustmentClose",
               <<Seg(1, Num(60), 101), Seg(MinPoints - 1, Num(100), 1)>>),
      Response("ok", "daily_quotes", "Date", "AdjustmentClose",
               <<Seg(MinPoints - 1, Num(100), 1), Seg(1, NaN, 101)>>),
      Response("ok", "quotes", "none", "AdjustmentClose",
               <<Seg(MinPoints, Num(100), 1), Seg(1, Num(50), 101)>>),
      Response("ok", "daily_quotes", "Date", "AdjustmentClose",
               <<Seg(MinPoints, Num(100), 1), Seg(1, NaN, 101)>>) }

Thresholds == {None, Rat(7, 10), Rat(1, 2), Rat(1, 1)}
TopNs == {None, Int_(-1), Int_(0), Int_(1), Int_(2)}

Prefix(n) == SubSeq(AllCodes, 1, n)
Range(s) == {s[k] : k \in 1..Len(s)}

SdStart ==
    /\ sdPc = "loop"
    /\ idx = 0
    /\ results = <<>>
    /\ fetched = <<>>
    /\ outcome = <<>>
    /\ returned = <<>>

InitScreen ==
    /\ \E n \in 0..MaxTickers : tickers = Prefix(n)
    /\ server \in [Range(tickers) -> ScreenResponses]
    /\ threshold \in Thresholds
    /\ top_n \in TopNs
    /\ SdStart
    /\ CfgIdle
    /\ MainIdle

NextScreen ==
    /\ ProcessTicker \/ SortResults \/ ReturnCodes
    /\ UNCHANGED <<cfgVars, ioVars, ssVars, mcVars>>

SpecScreen == InitScreen /\ [][NextScreen]_vars

\* search_drawdown called on one ticker, over the shapes a price response takes:
\* two runs of rows, received in date order or not, under every name the date
\* and the price column go by.
DateCols == {"Date", "date", "BaseDate", "none"}
PriceCols == {"AdjustmentClose", "Close", "EndPrice", "ClosePrice", "close", "endPrice"}
SegLens == {1, MinPoints - 1, MinPoints}
Entries == {Num(60), Num(100), NaN}
SegStarts == {<<1, 101>>, <<101, 1>>}

SeriesResponses ==
    { Response("ok", "daily_quotes", dc, pc,
               <<Seg(n1, e1, st[1]), Seg(n2, e2, st[2])>>) :
        dc \in DateCols, pc \in PriceCols, n1 \in SegLens, n2 \in SegLens,
        e1 \in Entries, e2 \in Entries, st \in SegStarts }

InitSeries ==
    /\ tickers = Prefix(1)
    /\ server \in [Range(tickers) -> SeriesResponses]
    /\ threshold \in Thresholds
    /\ top_n \in {None, Int_(1)}
    /\ SdStart
    /\ CfgIdle
    /\ MainIdle

SpecSeries == InitSeries /\ [][NextScreen]_vars

----------------------------------------------------------------------------
\* Properties of search_drawdown.

Processed == 1..idx
RespOf(k) == server[tickers[k]]
LoopOver == sdPc \in {"sort", "returned"}

\* The rows the screener can see and the numeric adjusted-close entries
\* among them, read off the response itself.
Visible(resp) ==
    /\ resp.kind = "ok"
    /\ resp.rowsKey \in {"daily_quotes", "data", "quotes"}
    /\ resp.priceCol = "AdjustmentClose"
ValidIdx(resp) == {i \in 1..Len(resp.rows) : resp.rows[i].price.num}
ValidPoints(resp) == Cardinality(ValidIdx(resp))
HasNonNumeric(resp) == \E i \in 1..Len(resp.rows) : ~resp.rows[i].price.num
\* The valid row with the latest date, and the one received last.
LatestIdx(resp) ==
    CHOOSE i \in ValidIdx(resp) :
        \A j \in ValidIdx(resp) : resp.rows[j].date <= resp.rows[i].date
LastIdx(resp) == Max(ValidIdx(resp))
PeakOf(resp) == Max({resp.rows[i].price.v : i \in ValidIdx(resp)})
LatestOf(resp) == resp.rows[LatestIdx(resp)].price.v
ResultOf(code) == CHOOSE r \in Range(results) : r.Code = code
Retained(code) == \E r \in Range(results) : r.Code = code

\* C1: a failure while processing one ticker skips that ticker only: the loop
\* never raises, every ticker of the list is fetched in list order whatever
\* failed before it, a ticker after a failing one gets the evaluation it gets
\* on its own and is kept in the results when that evaluation keeps it, and
\* the function returns only after the whole list was processed.
C1_FailureSkipsOnlyThatTicker ==
    /\ sdPc # "raised"
    /\ fetched = SubSeq(tickers, 1, idx)
    /\ Len(outcome) = idx
    /\ LoopOver => idx = Len(tickers)
    /\ \A k \in Processed :
         /\ outcome[k] = Evaluate(RespOf(k), threshold).outcome
         /\ outcome[k] = "kept" => Retained(tickers[k])
         /\ (FetchRaises(RespOf(k)) \/ (RespOf(k).rows # <<>> /\ RespOf(k).priceCol # "AdjustmentClose"
                                        /\ RespOf(k).rowsKey # "other"))
               => outcome[k] = "error" /\ ~Retained(tickers[k])

\* C1 witness: the first ticker failed, the second was kept and returned.
C1_Witness ==
    /\ sdPc = "returned"
    /\ Len(tickers) >= 2
    /\ outcome[1] = "error"
    /\ outcome[2] = "kept"
    /\ tickers[2] \in Range(returned)

\* C2: no returned ticker has fewer than 30 numeric adjusted-close entries,
\* and a ticker with non-numeric entries among at least 30 numeric ones is
\* evaluated, its peak being the largest numeric entry and its current value
\* a numeric entry.
C2_NeverShortSeries ==
    /\ \A k \in 1..Len(returned) :
         Visible(server[returned[k]]) /\ ValidPoints(server[returned[k]]) >= MinPoints
    /\ \A r \in Range(results) :
         Visible(server[r.Code]) /\ ValidPoints(server[r.Code]) >= MinPoints
    /\ \A k \in Processed :
         (/\ Visible(RespOf(k))
          /\ HasNonNumeric(RespOf(k))
          /\ ValidPoints(RespOf(k)) >= MinPoints
          /\ ~threshold.none)
         => /\ outcome[k] \in {"kept", "dropped"}
            /\ outcome[k] = "kept" =>
                 /\ ResultOf(tickers[k]).peak = PeakOf(RespOf(k))
                 /\ \E i \in ValidIdx(RespOf(k)) :
                      ResultOf(tickers[k]).cur = RespOf(k).rows[i].price.v

\* C2 witness: a ticker with exactly 30 numeric entries and a non-numeric one
\* was returned.
C2_Witness ==
    /\ sdPc = "returned"
    /\ \E k \in 1..Len(returned) :
         /\ HasNonNumeric(server[returned[k]])
         /\ ValidPoints(server[returned[k]]) = MinPoints

\* C3 as stated: the returned list is ascending by ratio, ties in encounter
\* order, and no longer than top_n whenever top_n is a number.
PosIn(seq, x) == CHOOSE k \in 1..Len(seq) : seq[k] = x
SortedStable(codes) ==
    \A i, j \in 1..Len(codes) :
        i < j => /\ ~RatioLess(ResultOf(codes[j]), ResultOf(codes[i]))
                 /\ ~RatioLess(ResultOf(codes[i]), ResultOf(codes[j]))
                       => PosIn(tickers, codes[i]) < PosIn(tickers, codes[j])
C3_SortedAndCapped ==
    sdPc = "returned" =>
        /\ SortedStable(returned)
        /\ ~top_n.none => Len(returned) <= top_n.num

\* C3 amended: the returned list is ascending by ratio, ties in encounter
\* order; it is the first top_n of the retained tickers when top_n >= 0, all
\* of them when top_n is None, and all but the last -top_n of them when
\* top_n < 0.
KeptCount == Cardinality({k \in Processed : outcome[k] = "kept"})
C3_SortedAndSliced ==
    sdPc = "returned" =>
        /\ SortedStable(returned)
        /\ Range(returned) \subseteq {tickers[k] : k \in {i \in Processed : outcome[i] = "kept"}}
        /\ \A k \in 1..Len(returned) : returned[k] = results[k].Code
        /\ \A k \in 1..Len(results) : \A j \in 1..Len(returned) :
             k > Len(returned) => ~RatioLess(results[k], ResultOf(returned[j]))
        /\ top_n.none => Len(returned) = KeptCount
        /\ (~top_n.none /\ top_n.num >= 0) =>
             Len(returned) = IF top_n.num < KeptCount THEN top_n.num ELSE KeptCount
        /\ (~top_n.none /\ top_n.num < 0) =>
             Len(returned) = IF KeptCount + top_n.num > 0 THEN KeptCount + top_n.num ELSE 0

\* C3 witness: two retained tickers of equal ratio, cut to one by top_n = 1.
C3_Witness ==
    /\ sdPc = "returned"
    /\ KeptCount = 2
    /\ ~RatioLess(results[1], results[2])
    /\ top_n = Int_(1)
    /\ returned = <<tickers[1]>>

\* C4: a ticker with at least 30 valid points is kept exactly when
\* current / peak <= threshold, where peak is the largest valid entry and
\* current the valid entry of the latest date when the rows carry a Date or
\* date column (the entry received last when they carry no date column); the
\* recorded ratio is that one and lies in (0, 1].  Peak 100 and current 60 is
\* kept at threshold 7/10 and not at 1/2.
CurrentOf(resp) ==
    IF resp.dateCol \in {"Date", "date"} THEN LatestOf(resp)
    ELSE resp.rows[LastIdx(resp)].price.v
PriceAliases == {"Close", "EndPrice", "ClosePrice", "close", "endPrice"}
DateAliases == {"Date", "date", "BaseDate"}
Canonical(resp) == [resp EXCEPT !.dateCol = "Date", !.priceCol = "AdjustmentClose"]
C8_AliasesNormalized ==
    \A k \in Processed :
        (/\ RespOf(k).kind = "ok"
         /\ RespOf(k).dateCol \in DateAliases
         /\ RespOf(k).priceCol \in PriceAliases \cup {"AdjustmentClose"})
        => /\ outcome[k] = Evaluate(Canonical(RespOf(k)), threshold).outcome
           /\ outcome[k] = "kept" => ResultOf(tickers[k]).cur = LatestOf(RespOf(k))

----------------------------------------------------------------------------
\* Text helpers shared by both mains.

Whitespace == {" ", "\t", "\n"}

\* str.strip()
RECURSIVE LStrip(_)
LStrip(t) == IF t # <<>> /\ Head(t) \in Whitespace THEN LStrip(Tail(t)) ELSE t
RECURSIVE RStrip(_)
RStrip(t) ==
    IF t # <<>> /\ t[Len(t)] \in Whitespace THEN RStrip(SubSeq(t, 1, Len(t) - 1)) ELSE t
Strip(t) == RStrip(LStrip(t))

\* "\n".join(lines)
RECURSIVE JoinLines(_)
JoinLines(lines) ==
    IF lines = <<>> THEN <<>>
    ELSE IF Len(lines) = 1 THEN lines[1]
    ELSE lines[1] \o <<"\n">> \o JoinLines(Tail(lines))

RefreshTokenKey == <<"r", "e", "f", "r", "e", "s", "h", "t", "o", "k", "e", "n">>
LookbackKey == <<"l", "o", "o", "k", "b", "a", "c", "k", "_", "d", "a", "y", "s">>
ThresholdKey == <<"t", "h", "r", "e", "s", "h", "o", "l", "d">>
TopNKey == <<"t", "o", "p", "_", "n">>

\* A config number as search_drawdown gets it; None when the key is absent.
ToArg(val) == IF val.t = "num" THEN Rat(val.num[1], val.num[2]) ELSE None

----------------------------------------------------------------------------
\* main of stock_search.py

SsCrash ==
    /\ ssPc' = "exited"
    /\ ssExit' = 1
    /\ ssDiag' = TRUE

\* lines 115-123: the refresh token from the config, checked and stripped
SsGetToken ==
    /\ ssPc = "start"
    /\ GetParam(RefreshTokenKey, NoneV, DefaultPath)
    /\ IF gpResult'.t # "str" \/ Strip(gpResult'.v) = <<>>
       THEN /\ SsCrash
            /\ UNCHANGED ssToken
       ELSE /\ ssPc' = "auth"
            /\ ssToken' = Strip(gpResult'.v)
            /\ UNCHANGED <<ssExit, ssDiag>>
    /\ UNCHANGED <<sdVars, ioVars, ssHeaders, ssAuth, ssListing, ssLookback, mcVars>>

\* lines 126-132: the token exchange; any other status than 200 shows the
\* message and goes on with `headers` unbound
SsAuth(status) ==
    /\ ssPc = "auth"
    /\ authReqs' = Append(authReqs, [script |-> "stock_search", token |-> Str(ssToken)])
    /\ ssAuth' = status
    /\ ssHeaders' = (status = 200)
    /\ ssDiag' = (status # 200)
    /\ ssPc' = "listing"
    /\ UNCHANGED <<sdVars, cfgVars, listing, resultFile, ssToken, ssListing, ssLookback,
                   ssExit, mcVars>>

\* raise_for_status(): raises for 4xx and 5xx
RaisesForStatus(status) == status >= 400 /\ status < 600

\* lines 135-136: get_all_info(headers); an unbound `headers` and a failed
\* fetch both end the process with a traceback
SsListing(status) ==
    /\ ssPc = "listing"
    /\ IF ~ssHeaders
       THEN /\ SsCrash
            /\ UNCHANGED ssListing
       ELSE /\ ssListing' = status
            /\ IF RaisesForStatus(status) THEN SsCrash
               ELSE /\ ssPc' = "lookback"
                    /\ UNCHANGED <<ssExit, ssDiag>>
    /\ UNCHANGED <<sdVars, cfgVars, ioVars, ssToken, ssHeaders, ssAuth, ssLookback, mcVars>>

\* line 138
SsGetLookback ==
    /\ ssPc = "lookback"
    /\ GetParam(LookbackKey, NoneV, DefaultPath)
    /\ ssLookback' = ToArg(gpResult')
    /\ ssPc' = "threshold"
    /\ UNCHANGED <<sdVars, ioVars, ssToken, ssHeaders, ssAuth, ssListing, ssExit, ssDiag,
                   mcVars>>

\* line 139
SsGetThreshold ==
    /\ ssPc = "threshold"
    /\ GetParam(ThresholdKey, NoneV, DefaultPath)
    /\ threshold' = ToArg(gpResult')
    /\ ssPc' = "top_n"
    /\ UNCHANGED <<tickers, server, top_n, sdPc, idx, results, fetched, outcome, returned,
                   ioVars, ssToken, ssHeaders, ssAuth, ssListing, ssLookback, ssExit,
                   ssDiag, mcVars>>

\* line 140
SsGetTopN ==
    /\ ssPc = "top_n"
    /\ GetParam(TopNKey, NoneV, DefaultPath)
    /\ top_n' = ToArg(gpResult')
    /\ ssPc' = "call"
    /\ UNCHANGED <<tickers, server, threshold, sdPc, idx, results, fetched, outcome,
                   returned, ioVars, ssToken, ssHeaders, ssAuth, ssListing, ssLookback,
                   ssExit, ssDiag, mcVars>>

\* all_tickers = [info["Code"] for info in infos]
AllTickers(lst) == [k \in 1..Len(lst) |-> lst[k].Code]

\* line 143 and lines 57-62: search_drawdown is entered; the date arithmetic
\* on a lookback_days of None raises before the loop
SsCallSearch ==
    /\ ssPc = "call"
    /\ IF ssLookback.none
       THEN /\ SsCrash
            /\ UNCHANGED <<tickers, sdPc>>
       ELSE /\ tickers' = AllTickers(listing)
            /\ sdPc' = "loop"
            /\ ssPc' = "searching"
            /\ UNCHANGED <<ssExit, ssDiag>>
    /\ UNCHANGED <<server, threshold, top_n, idx, results, fetched, outcome, returned,
                   cfgVars, ioVars, ssToken, ssHeaders, ssAuth, ssListing, ssLookback,
                   mcVars>>

\* info.get("CompanyName") or info.get("CompanyNameEnglish") or ""
InfoName(info) ==
    IF info.CompanyName # <<>> THEN info.CompanyName ELSE info.CompanyNameEnglish

\* code_to_name.get(code, ''): the dict comprehension keeps the last info of
\* a code
CodeToName(lst, code) ==
    LET at == {k \in 1..Len(lst) : lst[k].Code = code}
    IN  IF at = {} THEN <<>> ELSE InfoName(lst[Max(at)])

\* lines 146-149: the text written to search_result.txt
ResultText(codes, lst) ==
    JoinLines([k \in 1..Len(codes) |-> codes[k] \o <<",">> \o CodeToName(lst, codes[k])])

SsWrite ==
    /\ ssPc = "searching"
    /\ sdPc = "returned"
    /\ resultFile' = [exists |-> TRUE, text |-> ResultText(returned, listing)]
    /\ ssPc' = "exited"
    /\ ssExit' = 0
    /\ UNCHANGED <<sdVars, cfgVars, listing, authReqs, ssToken, ssHeaders, ssAuth,
                   ssListing, ssLookback, ssDiag, mcVars>>

----------------------------------------------------------------------------
\* make_chart.py

\* Python values handed to make_chart: a str, a Path, or None.
PyStr(v) == [type |-> "str", v |-> v]
PyPath(v) == [type |-> "Path", v |-> v]
Truthy(x) == x.type = "Path" \/ (x.type = "str" /\ x.v # <<>>)
Or(x, y) == IF Truthy(x) THEN x ELSE y

\* The dates both scripts compute from today, the delay and a lookback.
DelayDays == 84
DefaultLookback == 180
FromDate(lb) == PyStr(<<"today", "-", lb + DelayDays>>)
ToDate == PyStr(<<"today", "-", DelayDays>>)
ChartsDir == PyPath(<<"charts/">>)

\* output_dir / f"{code}_{company_name}.png": only a Path has the operator
CanJoin(dir) == dir.type = "Path"
ImagePath(dir, code, company_name) == dir.v \o code \o <<"_">> \o company_name \o <<".png">>

EmptyFrame == [empty |-> TRUE, cols |-> {}, rows |-> <<>>]

\* lines 36-41: the fetch range
FetchRange(start_date, end_date) ==
    IF Truthy(start_date) \/ Truthy(end_date)
    THEN [from |-> Or(start_date, FromDate(DefaultLookback)), to |-> Or(end_date, ToDate)]
    ELSE [from |-> FromDate(DefaultLookback), to |-> ToDate]

\* data.get("daily_quotes") or data.get("data") or []
ChartQuotes(resp) ==
    IF resp.rowsKey \in {"daily_quotes", "data"} THEN resp.rows ELSE <<>>

\* missing = [c for c in required if c not in df.columns]
ChartMissing(resp) ==
    {c \in {"Date"} \cup Ohlcv : c \notin {resp.dateCol, resp.priceCol} \cup resp.others}

\* make_chart(headers, code, company_name, output_dir, start_date, end_date):
\* the request made, the frame returned and the image written, if any
MakeChart(resp, code, company_name, output_dir, start_date, end_date) ==
    LET range == FetchRange(start_date, end_date)
        req == [code |-> code, from |-> range.from, to |-> range.to]
        nothing == [req |-> req, df |-> EmptyFrame, image |-> <<>>]
    IN  IF resp.kind # "ok" THEN nothing
        ELSE IF ChartQuotes(resp) = <<>> THEN nothing
        ELSE IF ChartMissing(resp) # {} THEN nothing
        ELSE [req |-> req,
              df |-> [empty |-> FALSE,
                      cols |-> {"date", "open", "high", "low", "close", "volume",
                                "ma20", "ma60"},
                      rows |-> SortByDate(ChartQuotes(resp))],
              image |-> IF CanJoin(output_dir)
                        THEN ImagePath(output_dir, code, company_name) ELSE <<>>]

McExitWith(code) ==
    /\ mcPc' = "exited"
    /\ mcExit' = code
    /\ mcDiag' = (code # 0)

\* cfg.get(key, default) on the loaded mapping
CfgGet(cfg, key, default) == IF key \in DOMAIN cfg.items THEN cfg.items[key] ELSE default

\* lines 115-131: config.yaml must exist, load to a mapping and hold a
\* truthy refreshtoken
McLoadConfig ==
    /\ mcPc = "start"
    /\ LET doc == files[DefaultPath]
           cfg == IF Falsy(doc.data) THEN EmptyDict ELSE doc.data
       IN  IF ~doc.exists THEN McExitWith(1) /\ UNCHANGED mcCfg
           ELSE IF cfg.t # "dict" THEN McExitWith(1) /\ UNCHANGED mcCfg
           ELSE IF Falsy(CfgGet(cfg, RefreshTokenKey, NoneV))
                THEN McExitWith(1) /\ mcCfg' = cfg
           ELSE /\ mcCfg' = cfg
                /\ mcPc' = "auth"
                /\ UNCHANGED <<mcExit, mcDiag>>
    /\ UNCHANGED <<sdVars, cfgVars, ioVars, ssVars, mcAuth, mcReadFile, company_names,
                   chartIdx, chartReqs, charts, chartResults>>

\* lines 133-143: the token exchange; any other status than 200 exits
McAuth(status) ==
    /\ mcPc = "auth"
    /\ authReqs' = Append(authReqs, [script |-> "make_chart",
                                     token |-> CfgGet(mcCfg, RefreshTokenKey, NoneV)])
    /\ mcAuth' = status
    /\ IF status = 200
       THEN /\ mcPc' = "read"
            /\ UNCHANGED <<mcExit, mcDiag>>
       ELSE McExitWith(1)
    /\ UNCHANGED <<sdVars, cfgVars, listing, resultFile, ssVars, mcCfg, mcReadFile,
                   company_names, chartIdx, chartReqs, charts, chartResults>>

\* company_names[code] = name: a new key goes last, a known key keeps its place
DictSet(pairs, code, name) ==
    IF \E k \in 1..Len(pairs) : pairs[k].code = code
    THEN [k \in 1..Len(pairs) |->
            IF pairs[k].code = code THEN [code |-> code, name |-> name] ELSE pairs[k]]
    ELSE Append(pairs, [code |-> code, name |-> name])

\* parts = [p.strip() for p in re.split(r"[,\t]", s) if p.strip()]
RECURSIVE StripParts(_)
StripParts(ps) ==
    IF ps = <<>> THEN <<>>
    ELSE IF Strip(Head(ps)) = <<>> THEN StripParts(Tail(ps))
    ELSE <<Strip(Head(ps))>> \o StripParts(Tail(ps))
LineParts(line) == StripParts(SplitOn(line, {",", "\t"}))

\* lines 158-166: the loop over the lines of search_result.txt
RECURSIVE ParseLines(_, _)
ParseLines(lines, pairs) ==
    IF lines = <<>> THEN pairs
    ELSE LET line == Strip(Head(lines))
             parts == LineParts(line)
         IN  IF line = <<>> \/ Head(line) = "#" THEN ParseLines(Tail(lines), pairs)
             ELSE IF parts = <<>> THEN ParseLines(Tail(lines), pairs)
             ELSE ParseLines(Tail(lines),
                             DictSet(pairs, parts[1],
                                     IF Len(parts) > 1 THEN parts[2] ELSE <<>>))
ParseTickers(text) == ParseLines(SplitOn(text, {"\n"}), <<>>)

\* lines 146-176: the dates, the tickers of search_result.txt, the charts
\* directory
McReadTickers ==
    /\ mcPc = "read"
    /\ mcReadFile' = resultFile
    /\ company_names' = IF resultFile.exists THEN ParseTickers(resultFile.text) ELSE <<>>
    /\ chartIdx' = 0
    /\ mcPc' = "loop"
    /\ UNCHANGED <<sdVars, cfgVars, ioVars, ssVars, mcCfg, mcAuth, chartReqs, charts,
                   chartResults, mcExit, mcDiag>>

\* lb = int(cfg.get("lookback_days", 180))
McLookback == LET v == CfgGet(mcCfg, LookbackKey, NumV(DefaultLookback, 1)) IN v.num[1] \div v.num[2]

\* What the price endpoint answers for a code; an unknown code is an error.
ServerFor(code) == IF code \in DOMAIN server THEN server[code] ELSE Failure("http_error")

\* line 182: make_chart(headers, code, company_name, start_date, end_date,
\* output_dir), the arguments passed by position
McCall(code, company_name, start_date, end_date, output_dir) ==
    MakeChart(ServerFor(code), code, company_name, start_date, end_date, output_dir)

\* lines 180-190: one iteration of the loop over company_names
McChartTicker ==
    /\ mcPc = "loop"
    /\ chartIdx < Len(company_names)
    /\ LET e == company_names[chartIdx + 1]
           r == McCall(e.code, e.name, FromDate(McLookback), ToDate, ChartsDir)
       IN  /\ chartReqs' = Append(chartReqs, r.req)
           /\ charts' = IF r.image # <<>> THEN charts \cup {r.image} ELSE charts
           /\ chartResults' = IF r.df.empty THEN chartResults
                              ELSE Append(chartResults, [code |-> e.code, df |-> r.df])
    /\ chartIdx' = chartIdx + 1
    /\ UNCHANGED <<sdVars, cfgVars, ioVars, ssVars, mcPc, mcCfg, mcAuth, mcReadFile,
                   company_names, mcExit, mcDiag>>

\* The loop is over and main returns.
McFinish ==
    /\ mcPc = "loop"
    /\ chartIdx = Len(company_names)
    /\ mcPc' = "exited"
    /\ mcExit' = 0
    /\ UNCHANGED <<sdVars, cfgVars, ioVars, ssVars, mcCfg, mcAuth, mcReadFile,
                   company_names, chartIdx, chartReqs, charts, chartResults, mcDiag>>

\* make_chart.py is started once stock_search.py has ended.
McLaunch ==
    /\ ssPc = "exited"
    /\ mcPc = "idle"
    /\ mcPc' = "start"
    /\ UNCHANGED <<sdVars, cfgVars, ioVars, ssVars, mcCfg, mcAuth, mcReadFile,
                   company_names, chartIdx, chartReqs, charts, chartResults, mcExit, mcDiag>>

----------------------------------------------------------------------------
\* Both scripts run one after the other.

AuthStatuses == {200, 401}
ListingStatuses == {200, 500}

NextMain ==
    \/ SsGetToken
    \/ \E status \in AuthStatuses : SsAuth(status)
    \/ \E status \in ListingStatuses : SsListing(status)
    \/ SsGetLookback
    \/ SsGetThreshold
    \/ SsGetTopN
    \/ SsCallSearch
    \/ (ProcessTicker \/ SortResults \/ ReturnCodes) /\ UNCHANGED <<cfgVars, ioVars, ssVars, mcVars>>
    \/ SsWrite
    \/ McLaunch
    \/ McLoadConfig
    \/ \E status \in AuthStatuses : McAuth(status)
    \/ McReadTickers
    \/ McChartTicker
    \/ McFinish

\* A config file with the given refreshtoken entry and screening parameters.
ConfigFile(token, params) ==
    File(Dict([k \in (IF token.t = "absent" THEN {} ELSE {RefreshTokenKey}) \cup DOMAIN params |->
                 IF k = RefreshTokenKey THEN token ELSE params[k]]))
Absent == [t |-> "absent", v |-> <<>>, items |-> NoItems, num |-> NoNum]
AllParams ==
    [k \in {LookbackKey, ThresholdKey, TopNKey} |->
        IF k = LookbackKey THEN NumV(30, 1)
        ELSE IF k = ThresholdKey THEN NumV(7, 10) ELSE NumV(1, 1)]
NoTopN == [k \in {LookbackKey, ThresholdKey} |-> AllParams[k]]
NoParams == <<>>

Tokens == {Absent, NoneV, Str(<<>>), Str(<<" ", " ">>), Str(<<" ", "t", "k">>), Str(<<"t", "k">>),
           NumV(5, 1)}
MainFiles ==
    {MissingFile, File(NoneV), File(ListV(<<"i">>))}
    \cup {ConfigFile(tok, AllParams) : tok \in Tokens}
    \cup {ConfigFile(Str(<<"t", "k">>), ps) : ps \in {NoTopN, NoParams}}

Info(code, name, english) ==
    [Code |-> code, CompanyName |-> name, CompanyNameEnglish |-> english]
MainListing == <<Info(Code1, <<"a">>, <<"e">>), Info(Code2, <<>>, <<"e">>)>>
MainResponses ==
    { Failure("timeout"),
      Response("ok", "daily_quotes", "Date", "AdjustmentClose",
               <<Seg(MinPoints - 1, Num(100), 1), Seg(1, Num(60), 101)>>),
      ResponseWith("ok", "daily_quotes", "Date", "AdjustmentClose", Ohlcv \ {"Volume"},
               <<Seg(MinPoints - 1, Num(100), 1), Seg(1, Num(50), 101)>>) }

MainStart ==
    /\ authReqs = <<>>
    /\ ssPc = "start"
    /\ ssToken = <<>>
    /\ ssHeaders = FALSE
    /\ ssAuth = 0
    /\ ssListing = 0
    /\ ssLookback = None
    /\ ssExit = -1
    /\ ssDiag = FALSE
    /\ mcPc = "idle"
    /\ mcCfg = EmptyDict
    /\ mcAuth = 0
    /\ mcReadFile = [exists |-> FALSE, text |-> <<>>]
    /\ company_names = <<>>
    /\ chartIdx = 0
    /\ chartReqs = <<>>
    /\ charts = {}
    /\ chartResults = <<>>
    /\ mcExit = -1
    /\ mcDiag = FALSE
    /\ tickers = <<>>
    /\ threshold = None
    /\ top_n = None
    /\ sdPc = "idle"
    /\ idx = 0
    /\ results = <<>>
    /\ fetched = <<>>
    /\ outcome = <<>>
    /\ returned = <<>>
    /\ CfgStart

\* Both scripts over every config file and every answer of the services; a
\* search_result.txt of an earlier run may be there.
EarlierResult == [exists |-> TRUE, text |-> ResultText(<<Code2, Code1>>, MainListing)]
InitMain ==
    /\ files \in [Paths -> MainFiles]
    /\ files["other.yaml"] = MissingFile
    /\ listing = MainListing
    /\ server \in [Range(AllTickers(listing)) -> MainResponses]
    /\ resultFile \in {[exists |-> FALSE, text |-> <<>>], EarlierResult}
    /\ MainStart

SpecMain == InitMain /\ [][NextMain]_vars

\* The screener and then the chart script over a listing whose codes and
\* company names hold the characters the result file gives a meaning to.
FileCodes == {<<"1">>, <<"2">>, <<"#", "3">>}
FileNames == {<<>>, <<"a">>, <<"a", ",", "b">>, <<"a", "\t", "b">>, <<" ", "a">>}
FileInfos == {Info(c, n, <<>>) : c \in FileCodes, n \in FileNames}
FileListings ==
    {<<>>} \cup {<<i>> : i \in FileInfos}
    \cup {<<p[1], p[2]>> : p \in {q \in FileInfos \X FileInfos : q[1].Code # q[2].Code}}

InitFile ==
    /\ files = [p \in Paths |->
                  IF p = DefaultPath THEN ConfigFile(Str(<<"t", "k">>), NoTopN) ELSE MissingFile]
    /\ listing \in FileListings
    /\ server \in [Range(AllTickers(listing)) -> MainResponses]
    /\ resultFile = [exists |-> FALSE, text |-> <<>>]
    /\ MainStart

SpecFile == InitFile /\ [][NextMain]_vars

----------------------------------------------------------------------------
\* Properties of the two mains.

\* The refreshtoken entry of config.yaml, None when the file or the key is
\* missing.
ConfiguredToken ==
    LET cfg == LoadFile(files[DefaultPath])
    IN  IF cfg.t = "dict" THEN CfgGet(cfg, RefreshTokenKey, NoneV) ELSE NoneV
ConfigIsMapping == LoadFile(files[DefaultPath]).t = "dict"
BlankCredential ==
    /\ ConfigIsMapping
    /\ \/ ConfiguredToken.t = "none"
       \/ ConfiguredToken.t = "str" /\ Strip(ConfiguredToken.v) = <<>>

\* A setup step of stock_search.py has failed.
SsSetupFailed ==
    \/ ssPc \notin {"idle", "start"} /\ BlankCredential
    \/ ssAuth \notin {0, 200}
    \/ RaisesForStatus(ssListing)

\* A setup step of make_chart.py has failed.
McSetupFailed ==
    \/ mcPc \notin {"idle", "start"} /\ BlankCredential
    \/ mcAuth \notin {0, 200}

C7_AbortedState ==
    /\ SsSetupFailed =>
         /\ fetched = <<>>
         /\ ssPc = "exited" => ssExit # 0 /\ ssDiag
    /\ McSetupFailed =>
         /\ chartReqs = <<>>
         /\ mcPc = "exited" => mcExit # 0 /\ mcDiag
    /\ sdPc # "idle" => ssExit \in {-1, 0}
    /\ chartIdx > 0 => mcExit \in {-1, 0}

\* C7: in both mains a setup failure (config file missing, refresh credential
\* missing or blank, token exchange answered with another status than 200,
\* listing fetch answered with an error status) ends the run with a diagnostic
\* and a non-zero exit code, no price request follows it and
\* search_result.txt is left as it was; once the loop over the tickers has
\* begun the exit status stays 0.
C7_SetupFailureAborts ==
    /\ []C7_AbortedState
    /\ [][SsSetupFailed \/ McSetupFailed => resultFile' = resultFile]_vars

\* The response of a chart ticker holds every required column.
ChartComplete(code) ==
    LET resp == ServerFor(code)
    IN  resp.kind = "ok" /\ ChartQuotes(resp) # <<>> /\ ChartMissing(resp) = {}

\* C9: every ticker the chart loop has processed was requested over the
\* window [start_date, end_date] main computed, and when its response holds
\* all required columns its image charts/{code}_{name}.png is written and its
\* frame is among the results.
C9_ChartWindowAndImage ==
    \A k \in 1..chartIdx :
        LET e == company_names[k]
        IN  /\ chartReqs[k] = [code |-> e.code, from |-> FromDate(McLookback), to |-> ToDate]
            /\ ChartComplete(e.code) =>
                 /\ ImagePath(ChartsDir, e.code, e.name) \in charts
                 /\ \E j \in 1..Len(chartResults) : chartResults[j].code = e.code

\* The (code, name) pairs the screener retained, in order.
RetainedPairs ==
    [k \in 1..Len(returned) |->
        [code |-> returned[k], name |-> CodeToName(listing, returned[k])]]

\* C10: when the chart script reads the search_result.txt this run of the
\* screener wrote, the (code, name) pairs it loads are the pairs the screener
\* retained, in the same order.
C10_ResultFileRoundTrip ==
    (ssExit = 0 /\ mcReadFile.exists /\ mcReadFile = resultFile) =>
        company_names = RetainedPairs

====
